---- MODULE Spec2Model ----
(***************************************************************************)
(* train_agent_batch (chainerrl/experiments/train_agent_batch.py): the     *)
(* batch training loop driving a vectorized environment and one agent,     *)
(* with per-slot episode bookkeeping, step hooks, periodic evaluation and  *)
(* the save-on-exit handler.  One action per call or statement group of    *)
(* the function; the collaborators (agent, env, hooks, evaluator,          *)
(* save_agent) are opaque calls that either return or raise.               *)
(***************************************************************************)
EXTENDS Integers, Sequences, FiniteSets, TLC

\* ---- bounds of the explored inputs ----
MaxEnvs == 2
MaxSteps == 2
MaxOffset == 1
MaxLen == 2
MaxHooks == 2
MaxEvaluatorHooks == 1
MaxWindow == 2
MaxScore == 1
MaxLogInterval == 2

\* an optional argument: None, or Some(v) holding the value v
None == <<>>
Some(v) == <<v>>
Val(x) == x[1]

VARIABLES
    \* arguments of train_agent_batch
    num_envs, steps, step_offset, max_episode_len, log_interval,
    evaluator, successful_score, step_hooks, return_window_size,
    \* locals of train_agent_batch
    pc, t, recent_returns, episode_r, episode_idx, episode_len,
    obss, rs, dones, resets, end, unit, hook_i,
    \* collaborator state
    max_score,
    \* the exception in flight and the first one raised
    exc, original,
    \* observation of the run: calls made and counters
    calls, exit_calls, n_iters, hook_count, hook_last, archived,
    fired, reports, exit_by

args == <<num_envs, steps, step_offset, max_episode_len, log_interval,
          evaluator, successful_score, step_hooks, return_window_size>>
locals == <<recent_returns, episode_r, episode_idx, episode_len,
            obss, rs, dones, resets, end, unit, hook_i>>
observed == <<calls, exit_calls, n_iters, hook_count, hook_last,
              archived, fired, reports, exit_by>>
vars == <<args, pc, t, locals, max_score, exc, original, observed>>

Slots == 1..num_envs
\* the rewards an environment slot may return in one step
Rewards == {0, 1}
Scores == 0..MaxScore
Kinds == {"Exception", "KeyboardInterrupt", "SystemExit"}
NoExc == [kind |-> "none", origin |-> "none"]

\* np.zeros(num_envs) and an all-False boolean vector
Zeros == [i \in Slots |-> 0]
AllFalse == [i \in Slots |-> FALSE]

\* step_hooks: a list of n registered hooks, identified by position
HookList(n) == [h \in 1..n |-> h]

\* ---- pure helpers ----

\* except (Exception, KeyboardInterrupt): the failures the handler catches
CaughtOnlyException(kind) == kind = "Exception"
Caught(kind) == kind \in {"Exception", "KeyboardInterrupt"}

\* resets = (episode_len == max_episode_len), all-False when it is None
TruncationMaskBeforeIncrement(len) ==
    [i \in Slots |-> max_episode_len # None /\ len[i] + 1 = Val(max_episode_len)]
TruncationMask(len) ==
    [i \in Slots |-> max_episode_len # None /\ len[i] = Val(max_episode_len)]

\* episode_r without the mask: the returns of all slots
RECURSIVE SelectedAll(_, _, _)
SelectedAll(r, mask, i) ==
    IF i > num_envs THEN <<>>
    ELSE <<r[i]>> \o SelectedAll(r, mask, i + 1)

\* episode_r[end]: the returns of the ended slots, in slot order
RECURSIVE Selected(_, _, _)
Selected(r, mask, i) ==
    IF i > num_envs THEN <<>>
    ELSE (IF mask[i] THEN <<r[i]>> ELSE <<>>) \o Selected(r, mask, i + 1)

\* deque(maxlen=n).extend(xs): append, dropping from the left on overflow
RECURSIVE ExtendKeepOldest(_, _, _)
ExtendKeepOldest(q, xs, n) ==
    IF xs = <<>> THEN q
    ELSE ExtendKeepOldest(IF Len(q) < n THEN Append(q, Head(xs)) ELSE q,
                          Tail(xs), n)
RECURSIVE Extend(_, _, _)
Extend(q, xs, n) ==
    IF xs = <<>> THEN q
    ELSE LET q1 == Append(q, Head(xs))
             q2 == IF Len(q1) > n THEN Tail(q1) ELSE q1
         IN Extend(q2, Tail(xs), n)

\* np.sum(episode_idx)
RECURSIVE SumTo(_, _)
SumTo(f, n) == IF n = 0 THEN 0 ELSE f[n] + SumTo(f, n - 1)
Sum(f) == SumTo(f, num_envs)

\* log_interval is not None and t >= log_interval
\*   and t % log_interval < num_envs
LogDueOnExactMultiple ==
    /\ log_interval # None
    /\ t >= Val(log_interval)
    /\ t % Val(log_interval) = 0
LogDue ==
    /\ log_interval # None
    /\ t >= Val(log_interval)
    /\ t % Val(log_interval) < num_envs

\* ---- the arguments of a run (signature, lines 19-22) ----
\* return_window_size=100
DefaultReturnWindowSize == 100

\* the optional arguments at the defaults of the signature
DefaultOffsetAndHooks == step_offset = 0 /\ step_hooks = <<>>
DefaultEvaluator == evaluator = FALSE /\ successful_score = None
DefaultEpisodes ==
    max_episode_len = None /\ return_window_size = DefaultReturnWindowSize
DefaultLogging == log_interval = None

\* a resumed run with step hooks, or a run from step_offset=0 with an
\* evaluator and up to MaxEvaluatorHooks step hooks
ControlArgs ==
    /\ step_offset \in 0..MaxOffset
    /\ step_hooks \in {HookList(n) : n \in 0..MaxHooks}
    /\ evaluator \in BOOLEAN
    /\ successful_score \in {None} \cup {Some(n) : n \in 1..MaxScore}
    /\ (~evaluator => successful_score = None)
    /\ (evaluator =>
          step_offset = 0 /\ Len(step_hooks) <= MaxEvaluatorHooks)
    /\ DefaultEpisodes
    /\ DefaultLogging

\* a run with episode truncation and a small return window
EpisodeArgs ==
    /\ max_episode_len \in {None} \cup {Some(n) : n \in 1..MaxLen}
    /\ return_window_size \in 0..MaxWindow
    /\ DefaultOffsetAndHooks
    /\ DefaultEvaluator
    /\ DefaultLogging

\* a resumed run with progress reports
LoggingArgs ==
    /\ log_interval \in {Some(n) : n \in 1..MaxLogInterval}
    /\ step_offset \in 0..MaxOffset
    /\ step_hooks = <<>>
    /\ DefaultEvaluator
    /\ DefaultEpisodes

\* ---- initial state: the call of train_agent_batch, lines 44-50 done ----
\* num_envs and steps range over all their values; the optional arguments
\* vary one group at a time, the other groups at their defaults.  t is
\* unbound until line 56 and is written -1 until then.
Init ==
    /\ num_envs \in 1..MaxEnvs
    /\ steps \in 0..MaxSteps
    /\ ControlArgs \/ EpisodeArgs \/ LoggingArgs
    /\ pc = "env.reset"
    /\ t = -1
    /\ recent_returns = <<>>
    /\ episode_r = Zeros
    /\ episode_idx = Zeros
    /\ episode_len = Zeros
    /\ obss = "unbound"
    /\ rs = Zeros
    /\ dones = AllFalse
    /\ resets = AllFalse
    /\ end = AllFalse
    /\ unit = 0
    /\ hook_i = 0
    /\ max_score \in (IF evaluator THEN Scores ELSE {0})
    /\ exc = NoExc
    /\ original = NoExc
    /\ calls = <<>>
    /\ exit_calls = <<>>
    /\ n_iters = 0
    /\ hook_count = [h \in 1..Len(step_hooks) |-> 0]
    /\ hook_last = [h \in 1..Len(step_hooks) |-> -1]
    /\ archived = <<>>
    /\ fired = Zeros
    /\ reports = 0
    /\ exit_by = "none"


\* ---- control points ----
\* calls made inside the try block (lines 61-115)
LoopCallPcs ==
    {"batch_act_and_train", "env.step", "batch_observe_and_train",
     "env.reset(not_end)", "hook"}
    \cup (IF LogDue THEN {"log"} ELSE {})
    \cup (IF evaluator THEN {"evaluate"} ELSE {})
\* every control point inside the try block
LoopPcs ==
    {"while", "batch_act_and_train", "env.step", "batch_observe_and_train",
     "finalize", "env.reset(not_end)", "for", "hook", "log", "evaluate"}

\* a call made by the loop body, with what it was given
Call(op, arg) == [op |-> op, arg |-> arg]

\* the suffixes of the two checkpoints (lines 119 and 126)
SwappedFinishSuffix == "_except"
FinishSuffix == "_finish"
ExceptSuffix == "_except"

\* a call of the exit paths: save_agent(agent, t, outdir, logger, suffix),
\* env.close() or evaluator.env.close(), and whether it returned
SaveAgent(suffix, returned) ==
    [op |-> "save_agent", suffix |-> suffix, step |-> t,
     returned |-> returned]
Close(target, returned) ==
    [op |-> target, suffix |-> "", step |-> t, returned |-> returned]

\* ---- the function body ----

\* lines 53-58: obss = env.reset(); rs = zeros; t = step_offset
\* (agent.t, set at line 58 when the agent has it, is read nowhere here)
InitialReset ==
    /\ pc = "env.reset"
    /\ obss' = "env.reset()"
    /\ rs' = Zeros
    /\ t' = step_offset
    /\ pc' = "while"
    /\ UNCHANGED <<args, recent_returns, episode_r, episode_idx, episode_len,
                   dones, resets, end, unit, hook_i, max_score, exc, original,
                   observed>>

\* line 61: the loop condition
LoopConditionInclusive == t <= steps
LoopCondition == t < steps

\* line 61: while t < steps; the else clause of the try is entered otherwise
WhileTest ==
    /\ pc = "while"
    /\ IF LoopCondition
         THEN /\ pc' = "batch_act_and_train"
              /\ calls' = <<>>
              /\ exit_by' = exit_by
         ELSE /\ pc' = "finish"
              /\ calls' = calls
              /\ exit_by' = "budget"
    /\ UNCHANGED <<args, t, locals, max_score, exc, original, exit_calls,
                   n_iters, hook_count, hook_last, archived, fired, reports>>

\* line 63: actions = agent.batch_act_and_train(obss)
BatchActAndTrain ==
    /\ pc = "batch_act_and_train"
    /\ calls' = Append(calls, Call("agent.batch_act_and_train", obss))
    /\ pc' = "env.step"
    /\ UNCHANGED <<args, t, locals, max_score, exc, original, exit_calls,
                   n_iters, hook_count, hook_last, archived, fired, reports,
                   exit_by>>

\* lines 65-73: obss, rs, dones, infos = env.step(actions);
\* episode_r += rs; episode_len += 1; resets = truncation mask
EnvStep ==
    /\ pc = "env.step"
    /\ \E r \in [Slots -> Rewards], d \in [Slots -> BOOLEAN] :
        /\ rs' = r
        /\ dones' = d
        /\ episode_r' = [i \in Slots |-> episode_r[i] + r[i]]
    /\ obss' = "env.step"
    /\ episode_len' = [i \in Slots |-> episode_len[i] + 1]
    /\ resets' = TruncationMask(episode_len')
    /\ fired' = [i \in Slots |-> fired[i] + (IF resets'[i] THEN 1 ELSE 0)]
    /\ n_iters' = n_iters + 1
    /\ calls' = Append(calls, Call("env.step", "actions"))
    /\ pc' = "batch_observe_and_train"
    /\ UNCHANGED <<args, t, recent_returns, episode_idx, end, unit, hook_i,
                   max_score, exc, original, exit_calls, hook_count,
                   hook_last, archived, reports, exit_by>>

\* line 75: agent.batch_observe_and_train(obss, rs, dones, resets)
BatchObserveAndTrain ==
    /\ pc = "batch_observe_and_train"
    /\ calls' = Append(calls, Call("agent.batch_observe_and_train",
                                   <<obss, rs, dones, resets>>))
    /\ pc' = "finalize"
    /\ UNCHANGED <<args, t, locals, max_score, exc, original, exit_calls,
                   n_iters, hook_count, hook_last, archived, fired, reports,
                   exit_by>>

\* line 78: end = np.logical_or(resets, dones)
EndMaskDonesOnly == [i \in Slots |-> dones[i]]
EndMask == [i \in Slots |-> resets[i] \/ dones[i]]

\* lines 78-90: end = resets or dones; episode_idx += end;
\* recent_returns.extend(episode_r[end]); episode_r[end] = 0;
\* episode_len[end] = 0
Finalize ==
    /\ pc = "finalize"
    /\ end' = EndMask
    /\ episode_idx' = [i \in Slots |->
                          episode_idx[i] + (IF end'[i] THEN 1 ELSE 0)]
    /\ recent_returns' = Extend(recent_returns, Selected(episode_r, end', 1),
                                return_window_size)
    /\ archived' = archived \o Selected(episode_r, end', 1)
    /\ episode_r' = [i \in Slots |-> IF end'[i] THEN 0 ELSE episode_r[i]]
    /\ episode_len' = [i \in Slots |-> IF end'[i] THEN 0 ELSE episode_len[i]]
    /\ fired' = [i \in Slots |-> IF end'[i] THEN 0 ELSE fired[i]]
    /\ calls' = Append(calls, Call("finalize", end'))
    /\ pc' = "env.reset(not_end)"
    /\ UNCHANGED <<args, t, obss, rs, dones, resets, unit, hook_i, max_score,
                   exc, original, exit_calls, n_iters, hook_count,
                   hook_last, reports, exit_by>>

\* line 79: not_end = np.logical_not(end)
NotEndInverted == [i \in Slots |-> end[i]]
NotEnd == [i \in Slots |-> ~end[i]]

\* line 91 with the result of env.reset(not_end) dropped
EnvResetMaskKeepsObss ==
    /\ pc = "env.reset(not_end)"
    /\ calls' = Append(calls, Call("env.reset", NotEnd))
    /\ unit' = 0
    /\ pc' = "for"
    /\ UNCHANGED <<args, t, recent_returns, episode_r, episode_idx,
                   episode_len, obss, rs, dones, resets, end, hook_i,
                   max_score, exc, original, exit_calls, n_iters,
                   hook_count, hook_last, archived, fired, reports, exit_by>>

\* line 91: obss = env.reset(not_end)
EnvResetMask ==
    /\ pc = "env.reset(not_end)"
    /\ obss' = "env.reset(not_end)"
    /\ calls' = Append(calls, Call("env.reset", NotEnd))
    /\ unit' = 0
    /\ pc' = "for"
    /\ UNCHANGED <<args, t, recent_returns, episode_r, episode_idx,
                   episode_len, rs, dones, resets, end, hook_i, max_score,
                   exc, original, exit_calls, n_iters, hook_count,
                   hook_last, archived, fired, reports, exit_by>>

\* the control point after the hooks of one unit have run
AfterHooks(u) == IF u = num_envs THEN "log" ELSE "for"

\* lines 93-94 with the counter advanced by the whole batch at once
TickWholeBatch ==
    /\ pc = "for"
    /\ unit < num_envs
    /\ unit' = unit + 1
    /\ t' = IF unit = 0 THEN t + num_envs ELSE t
    /\ hook_i' = 1
    /\ pc' = IF step_hooks # <<>> THEN "hook" ELSE AfterHooks(unit')
    /\ UNCHANGED <<args, recent_returns, episode_r, episode_idx, episode_len,
                   obss, rs, dones, resets, end, max_score, exc, original,
                   observed>>

\* lines 93-94: for _ in range(num_envs): t += 1
Tick ==
    /\ pc = "for"
    /\ unit < num_envs
    /\ unit' = unit + 1
    /\ t' = t + 1
    /\ hook_i' = 1
    /\ pc' = IF step_hooks # <<>> THEN "hook" ELSE AfterHooks(unit')
    /\ UNCHANGED <<args, recent_returns, episode_r, episode_idx, episode_len,
                   obss, rs, dones, resets, end, max_score, exc, original,
                   observed>>

\* line 95: for hook in step_hooks, the i-th hook of the iteration
HookAtReversed(i) == step_hooks[Len(step_hooks) + 1 - i]
HookAt(i) == step_hooks[i]

\* lines 95-96: for hook in step_hooks: hook(env, agent, t)
HookCall ==
    /\ pc = "hook"
    /\ hook_i <= Len(step_hooks)
    /\ calls' = Append(calls, Call("hook", <<HookAt(hook_i), t>>))
    /\ hook_count' = [hook_count EXCEPT ![HookAt(hook_i)] = @ + 1]
    /\ hook_last' = [hook_last EXCEPT ![HookAt(hook_i)] = t]
    /\ hook_i' = hook_i + 1
    /\ pc' = IF hook_i < Len(step_hooks) THEN "hook" ELSE AfterHooks(unit)
    /\ UNCHANGED <<args, t, recent_returns, episode_r, episode_idx,
                   episode_len, obss, rs, dones, resets, end, unit,
                   max_score, exc, original, exit_calls, n_iters,
                   archived, fired, reports, exit_by>>

\* lines 98-109: the progress report and agent.get_statistics()
Log ==
    /\ pc = "log"
    /\ IF LogDue
         THEN /\ reports' = reports + 1
              /\ calls' = Append(calls, Call("logger.info",
                                             <<t, Sum(episode_idx)>>))
         ELSE UNCHANGED <<reports, calls>>
    /\ pc' = "evaluate"
    /\ UNCHANGED <<args, t, locals, max_score, exc, original, exit_calls,
                   n_iters, hook_count, hook_last, archived, fired, exit_by>>

\* Evaluator.evaluate_if_necessary(t, episodes): whether an evaluation ran,
\* and the best score afterwards (max_score never decreases)
EvaluateIfNecessary(ran, best) ==
    /\ ran \in BOOLEAN
    /\ best \in Scores
    /\ IF ran THEN best >= max_score ELSE best = max_score

\* lines 113-114: successful_score is not None
\*   and evaluator.max_score >= successful_score
SuccessfulStrict(best) ==
    successful_score # None /\ best > Val(successful_score)
Successful(best) ==
    successful_score # None /\ best >= Val(successful_score)

\* lines 111-115: break when evaluate_if_necessary returned true and the
\* threshold is met
BreakDueIgnoringRan(ran, best) == Successful(best)
BreakDue(ran, best) == ran /\ Successful(best)

\* lines 110-115: the evaluation gate and the success-driven break
Evaluate ==
    /\ pc = "evaluate"
    /\ IF evaluator
         THEN \E ran \in BOOLEAN, best \in Scores :
                /\ EvaluateIfNecessary(ran, best)
                /\ max_score' = best
                /\ calls' = Append(calls,
                                   Call("evaluator.evaluate_if_necessary",
                                        <<t, Sum(episode_idx), ran>>))
                /\ IF BreakDue(ran, best)
                     THEN pc' = "finish" /\ exit_by' = "success"
                     ELSE pc' = "while" /\ exit_by' = exit_by
         ELSE /\ pc' = "while"
              /\ UNCHANGED <<max_score, calls, exit_by>>
    /\ UNCHANGED <<args, t, locals, exc, original, exit_calls, n_iters,
                   hook_count, hook_last, archived, fired, reports>>

\* the else clause followed by env.close()
SaveFinishAndClose ==
    /\ pc = "finish"
    /\ \E returned \in BOOLEAN, kind \in Kinds :
        /\ IF returned
             THEN /\ kind = "Exception"
                  /\ exit_calls' =
                        exit_calls \o <<SaveAgent(FinishSuffix, TRUE),
                                        Close("env.close", TRUE)>>
                  /\ pc' = "returned"
                  /\ UNCHANGED <<exc, original>>
             ELSE /\ exit_calls' =
                        Append(exit_calls, SaveAgent(FinishSuffix, FALSE))
                  /\ pc' = "raised"
                  /\ exc' = [kind |-> kind, origin |-> "save_agent"]
                  /\ original' = exc'
    /\ UNCHANGED <<args, t, locals, max_score, calls, n_iters, hook_count,
                   hook_last, archived, fired, reports, exit_by>>

\* line 126 (else clause): save_agent(agent, t, outdir, logger, '_finish');
\* a failure of the save is outside the try block and reaches the caller
SaveFinish ==
    /\ pc = "finish"
    /\ \E returned \in BOOLEAN, kind \in Kinds :
        /\ exit_calls' = Append(exit_calls, SaveAgent(FinishSuffix, returned))
        /\ IF returned
             THEN /\ kind = "Exception"
                  /\ pc' = "returned"
                  /\ UNCHANGED <<exc, original>>
             ELSE /\ pc' = "raised"
                  /\ exc' = [kind |-> kind, origin |-> "save_agent"]
                  /\ original' = exc'
    /\ UNCHANGED <<args, t, locals, max_score, calls, n_iters, hook_count,
                   hook_last, archived, fired, reports, exit_by>>

\* ---- failures ----

\* line 53 raises: the initial env.reset() is outside the try block
InitialResetRaises ==
    /\ pc = "env.reset"
    /\ \E kind \in Kinds : exc' = [kind |-> kind, origin |-> pc]
    /\ original' = exc'
    /\ pc' = "raised"
    /\ UNCHANGED <<args, t, locals, max_score, observed>>

\* a call of the loop body raises, or an interrupt lands inside the try
\* block; line 117 decides whether the handler runs
RaiseInLoop ==
    /\ \E kind \in Kinds :
        /\ \/ pc \in LoopCallPcs
           \/ pc \in LoopPcs /\ kind = "KeyboardInterrupt"
        /\ exc' = [kind |-> kind, origin |-> pc]
        /\ pc' = IF Caught(kind) THEN "except" ELSE "raised"
    /\ original' = exc'
    /\ UNCHANGED <<args, t, locals, max_score, observed>>

\* the calls of the handler in order: lines 119, 120, 121-122
HandlerCallsCloseFirst ==
    <<"env.close", "save_agent">>
    \o (IF evaluator THEN <<"evaluator.env.close">> ELSE <<>>)
HandlerCalls ==
    <<"save_agent", "env.close">>
    \o (IF evaluator THEN <<"evaluator.env.close">> ELSE <<>>)

\* the calls the handler makes when its call number failed raises
\* (failed = 0: every call returns)
HandlerTrace(failed) ==
    [k \in 1..(IF failed = 0 THEN Len(HandlerCalls) ELSE failed) |->
        IF HandlerCalls[k] = "save_agent"
          THEN SaveAgent(ExceptSuffix, k # failed)
          ELSE Close(HandlerCalls[k], k # failed)]

\* lines 117-123: the handler saves with suffix '_except', closes env and
\* the evaluator's env, and re-raises; a call of the handler that raises
\* ends the handler and replaces the failure in flight
Handler ==
    /\ pc = "except"
    /\ \E failed \in 0..Len(HandlerCalls) :
        /\ exit_calls' = exit_calls \o HandlerTrace(failed)
        /\ exc' = IF failed = 0 THEN exc
                  ELSE [kind |-> "Exception", origin |-> HandlerCalls[failed]]
    /\ pc' = "raised"
    /\ UNCHANGED <<args, t, locals, max_score, original, calls, n_iters,
                   hook_count, hook_last, archived, fired, reports, exit_by>>

Next ==
    \/ InitialReset
    \/ WhileTest
    \/ BatchActAndTrain
    \/ EnvStep
    \/ BatchObserveAndTrain
    \/ Finalize
    \/ EnvResetMask
    \/ Tick
    \/ HookCall
    \/ Log
    \/ Evaluate
    \/ SaveFinish
    \/ InitialResetRaises
    \/ RaiseInLoop
    \/ Handler

Spec == Init /\ [][Next]_vars

TypeOK ==
    /\ pc \in LoopPcs \cup {"env.reset", "except", "finish", "returned",
                            "raised"}
    /\ t \in -1..(MaxSteps + MaxEnvs + MaxOffset)
    /\ Len(recent_returns) <= return_window_size

\* ---- vocabulary of the properties ----

\* the positions in exit_calls of the calls of op with the given suffix
ExitCallsWith(op, suffix) ==
    {k \in DOMAIN exit_calls :
        exit_calls[k].op = op /\ exit_calls[k].suffix = suffix}
NumSaves(suffix) == Cardinality(ExitCallsWith("save_agent", suffix))
Invoked(target) == \E k \in DOMAIN exit_calls : exit_calls[k].op = target
AllReturned == \A k \in DOMAIN exit_calls : exit_calls[k].returned

\* the failure reached the caller / the run returned to the caller
ReachedCaller == pc = "raised"
\* the first failure was an exception or a keyboard interrupt raised
\* inside the loop body
FailedInLoop ==
    /\ original.origin \in LoopPcs
    /\ original.kind \in {"Exception", "KeyboardInterrupt"}
\* the run left the loop because t >= steps, and no call has failed
BudgetExhausted == exit_by = "budget" /\ pc \in {"finish", "returned"}
FinishSave(returned) ==
    [op |-> "save_agent", suffix |-> "_finish", step |-> t,
     returned |-> returned]

IsHookCall(c) == c.op = "hook"
HooksOfIteration == SelectSeq(calls, IsHookCall)
\* the value of t when the current iteration began
IterationStart == step_offset + num_envs * (n_iters - 1)
LastCall == calls[Len(calls)]
\* the last call of the iteration was an evaluation that ran and left
\* max_score at or above successful_score
EvaluationMetThreshold ==
    /\ calls # <<>>
    /\ LastCall.op = "evaluator.evaluate_if_necessary"
    /\ LastCall.arg[3]
    /\ successful_score # None
    /\ max_score >= Val(successful_score)
LastN(s, n) ==
    IF Len(s) <= n THEN s ELSE SubSeq(s, Len(s) - n + 1, Len(s))
Ended == {i \in Slots : dones[i] \/ resets[i]}

\* ---- C1 ----
\* C1 as stated: when a call of the loop body raises an exception or a
\* keyboard interrupt, then by the time the failure reaches the caller
\* save_agent was invoked exactly once, with '_except' and never '_finish',
\* env.close was invoked, evaluator.env.close was invoked if an evaluator
\* is configured, and the failure that reaches the caller is the original.
C1_AsStated ==
    (ReachedCaller /\ FailedInLoop) =>
        /\ NumSaves("_except") = 1
        /\ NumSaves("_finish") = 0
        /\ Invoked("env.close")
        /\ (evaluator => Invoked("evaluator.env.close"))
        /\ exc = original

\* C1 amended: save_agent is invoked exactly once, with '_except', as the
\* first call of the handler; if every call of the handler returns, env and
\* the evaluator's env are closed and the original failure reaches the
\* caller; if a call of the handler raises, the calls after it are skipped
\* and its failure is the one that reaches the caller.
C1_ExceptPath ==
    (ReachedCaller /\ FailedInLoop) =>
        /\ NumSaves("_except") = 1
        /\ NumSaves("_finish") = 0
        /\ exit_calls[1].op = "save_agent"
        /\ \A k \in 1..(Len(exit_calls) - 1) : exit_calls[k].returned
        /\ IF AllReturned
             THEN /\ Invoked("env.close")
                  /\ (evaluator => Invoked("evaluator.env.close"))
                  /\ exc = original
             ELSE /\ exc # original
                  /\ exc.origin = exit_calls[Len(exit_calls)].op

C1_Witness ==
    /\ ReachedCaller
    /\ original = [kind |-> "Exception", origin |-> "env.step"]
    /\ exc = original
    /\ evaluator
    /\ Len(exit_calls) = 3
    /\ AllReturned

\* ---- C2 ----
\* C2: when the loop ends because t >= steps and no call failed,
\* save_agent is invoked exactly once, with '_finish' and never '_except',
\* and not before the loop has ended (no '_finish' save exists while the
\* function is still inside the loop).
C2_FinishOnce ==
    /\ (pc = "returned" /\ exit_by = "budget") =>
          /\ exit_calls = <<FinishSave(TRUE)>>
          /\ ~(t < steps)
    /\ (pc \in LoopPcs \cup {"env.reset", "finish"}) => exit_calls = <<>>

C2_Witness ==
    /\ pc = "returned"
    /\ exit_by = "budget"
    /\ n_iters = 2
    /\ exit_calls = <<FinishSave(TRUE)>>

\* ---- C3 ----
\* C3 as stated: when the success exit is taken, the loop ended before the
\* step budget was reached (t < steps) and the checkpoint is '_finish',
\* not '_except'.
C3_AsStated ==
    exit_by = "success" =>
        /\ t < steps
        /\ NumSaves("_except") = 0
        /\ (pc = "returned" => NumSaves("_finish") = 1)

\* C3 amended: an evaluation that ran and left max_score >= successful_score
\* ends the loop at once (the loop never tests its condition again after
\* it), in the iteration that made the evaluation, whose start was within
\* the budget; t may already have reached steps if that was the last
\* iteration of the budget; the only checkpoint is '_finish' at that t.
C3_SuccessExit ==
    /\ (pc = "while" => ~EvaluationMetThreshold)
    /\ exit_by = "success" =>
          /\ pc \in {"finish", "returned", "raised"}
          /\ EvaluationMetThreshold
          /\ t - num_envs < steps
          /\ t = step_offset + num_envs * n_iters
          /\ NumSaves("_except") = 0
          /\ (pc = "finish" => exit_calls = <<>>)
          /\ (pc = "returned" => exit_calls = <<FinishSave(TRUE)>>)
          /\ (pc = "raised" => exit_calls = <<FinishSave(FALSE)>>)

C3_Witness ==
    /\ exit_by = "success"
    /\ pc = "returned"
    /\ t < steps
    /\ exit_calls = <<FinishSave(TRUE)>>

\* ---- C4 ----
\* C4 as stated: whenever a failure reaches the caller, save_agent has been
\* invoked with suffix '_except'.
C4_AsStated == ReachedCaller => NumSaves("_except") >= 1

\* C4 amended: a failure that reaches the caller was preceded by an
\* '_except' save exactly when it began as an exception or keyboard
\* interrupt inside the loop (the try block); a failure of the initial
\* env.reset() or of the '_finish' save reaches the caller with no
\* '_except' save.
C4_ExceptCheckpoint ==
    ReachedCaller =>
        /\ NumSaves("_except") <= 1
        /\ (NumSaves("_except") = 1 <=> FailedInLoop)
        /\ (original.origin = "env.reset" => exit_calls = <<>>)
        /\ (original.origin = "save_agent" =>
                exit_calls = <<FinishSave(FALSE)>>)

C4_Witness ==
    /\ ReachedCaller
    /\ original = [kind |-> "KeyboardInterrupt", origin |-> "hook"]
    /\ NumSaves("_except") = 1
    /\ ~AllReturned

\* ---- C5 ----
\* C5 as stated: with steps a multiple of num_envs, a run with no failure
\* and no early exit makes exactly steps / num_envs iterations and ends
\* with t = step_offset + steps.
C5_AsStated ==
    (BudgetExhausted /\ steps % num_envs = 0) =>
        /\ n_iters = steps \div num_envs
        /\ t = step_offset + steps

\* C5 amended: steps is the total, not the increment: with
\* step_offset <= steps and steps - step_offset a multiple of num_envs, a
\* run with no failure and no early exit makes exactly
\* (steps - step_offset) / num_envs iterations and ends with t = steps.
C5_Iterations ==
    (BudgetExhausted /\ step_offset <= steps
                     /\ (steps - step_offset) % num_envs = 0) =>
        /\ n_iters = (steps - step_offset) \div num_envs
        /\ t = steps

C5_Witness ==
    /\ BudgetExhausted
    /\ pc = "returned"
    /\ step_offset = 1
    /\ steps = 2
    /\ n_iters = 1
    /\ t = 2

\* ---- C6 ----
\* C6 as stated: in a run that ends by budget exhaustion every hook has
\* been invoked exactly steps times, with strictly increasing steps.
C6_AsStated ==
    \A h \in DOMAIN hook_count :
        /\ hook_count[h] > 0 => hook_last[h] = step_offset + hook_count[h]
        /\ BudgetExhausted => hook_count[h] = steps

\* C6 amended: the k-th call of a hook receives step_offset + k (so the
\* steps a hook receives increase by one per call), and in a run that ends
\* by budget exhaustion every hook has been invoked t - step_offset =
\* num_envs * iterations times for the final t, which is steps when
\* step_offset = 0 and steps is a multiple of num_envs.
C6_HookCalls ==
    \A h \in DOMAIN hook_count :
        /\ hook_count[h] > 0 => hook_last[h] = step_offset + hook_count[h]
        /\ BudgetExhausted =>
              /\ hook_count[h] = t - step_offset
              /\ hook_count[h] = num_envs * n_iters
              /\ (step_offset = 0 /\ steps % num_envs = 0) =>
                    hook_count[h] = steps

C6_Witness ==
    /\ BudgetExhausted
    /\ pc = "returned"
    /\ Len(step_hooks) = 2
    /\ num_envs = 2
    /\ step_offset = 0
    /\ steps = 2
    /\ hook_count[1] = 2 /\ hook_count[2] = 2
    /\ hook_last[2] = 2

\* ---- C7 ----
\* C7: within an iteration the hook calls come in the order (unit, hook):
\* the j-th hook call of the iteration is the call of hook ((j-1) mod H)+1
\* with step = (t at the start of the iteration) + ((j-1) div H) + 1, the
\* value of t at the call; every hook call comes after the iteration's
\* batch_act_and_train, env.step, batch_observe_and_train, bookkeeping
\* update and env.reset(not_end); and when the for loop is done every hook
\* was called once per unit.
C7_HookOrder ==
    LET hk == HooksOfIteration
        H == Len(step_hooks)
    IN /\ \A j \in 1..Len(hk) :
            hk[j].arg = <<((j - 1) % H) + 1,
                          IterationStart + ((j - 1) \div H) + 1>>
       /\ \A k \in DOMAIN calls :
            calls[k].op = "hook" =>
                /\ k > 5
                /\ calls[1].op = "agent.batch_act_and_train"
                /\ calls[2].op = "env.step"
                /\ calls[3].op = "agent.batch_observe_and_train"
                /\ calls[4].op = "finalize"
                /\ calls[5].op = "env.reset"
       /\ (pc = "hook" => hk = <<>> \/ hk[Len(hk)].arg[2] <= t)
       /\ (pc = "log" => Len(hk) = H * num_envs /\ unit = num_envs)

C7_Witness ==
    /\ pc = "log"
    /\ Len(step_hooks) = 2
    /\ num_envs = 2
    /\ Len(HooksOfIteration) = 4
    /\ HooksOfIteration[3].arg = <<1, t>>

\* ---- C8 ----
\* C8: in the bookkeeping step of an iteration every slot that ended
\* (dones[i] or resets[i]) has its episode_idx increased by exactly 1 and
\* exactly one value archived, its accumulated return, which includes the
\* reward of this iteration; episode_idx changes nowhere else; and when
\* the next iteration begins the slot's episode_r and episode_len are 0.
C8_Step ==
    /\ (pc = "env.step" /\ pc' = "batch_observe_and_train") =>
          \A i \in Slots : episode_r'[i] = episode_r[i] + rs'[i]
    /\ (pc = "finalize" /\ pc' = "env.reset(not_end)") =>
          /\ \A i \in Slots :
                episode_idx'[i] =
                    episode_idx[i] + (IF i \in Ended THEN 1 ELSE 0)
          /\ Len(archived') = Len(archived) + Cardinality(Ended)
          /\ \A i \in Ended :
                archived'[Len(archived)
                          + Cardinality({j \in Ended : j <= i})]
                    = episode_r[i]
    /\ (episode_idx' # episode_idx => pc = "finalize")
    /\ (pc = "while" /\ pc' = "batch_act_and_train") =>
          \A i \in Slots :
              (n_iters > 0 /\ i \in Ended) =>
                  episode_r'[i] = 0 /\ episode_len'[i] = 0
C8_EpisodeEnd == [][C8_Step]_vars

C8_Witness ==
    /\ pc = "batch_act_and_train"
    /\ n_iters = 1
    /\ \E i \in Slots :
        /\ dones[i] /\ resets[i]
        /\ rs[i] = 1
        /\ episode_idx[i] = 1
        /\ archived = <<1>>
        /\ episode_r[i] = 0 /\ episode_len[i] = 0

\* ---- C9 ----
\* C9: the resets vector given to the agent has resets[i] true exactly
\* when max_episode_len is set and the slot's step count, after this
\* iteration's increment, equals it; the truncation fires at most once
\* between two clearings of the slot's step count; and with
\* max_episode_len unset resets is all false.
C9_Truncation ==
    /\ pc = "batch_observe_and_train" =>
          \A i \in Slots :
              resets[i] <=> (/\ max_episode_len # None
                             /\ episode_len[i] = Val(max_episode_len))
    /\ \A i \in Slots : fired[i] <= 1
    /\ max_episode_len = None => resets = AllFalse

C9_Witness ==
    /\ pc = "batch_observe_and_train"
    /\ max_episode_len = Some(1)
    /\ n_iters = 2
    /\ resets[1]
    /\ episode_idx[1] = 1
    /\ fired[1] = 1

\* ---- C10 ----
\* C10: recent_returns never holds more than return_window_size entries,
\* and it is the last return_window_size archived returns (all of them
\* while fewer were archived), in the order they were archived.
C10_ReturnWindow ==
    /\ Len(recent_returns) <= return_window_size
    /\ recent_returns = LastN(archived, return_window_size)

C10_Witness ==
    /\ return_window_size = 1
    /\ num_envs = 2
    /\ n_iters = 1
    /\ archived = <<0, 1>>
    /\ recent_returns = <<1>>

\* ---- C11 ----
\* the value t has when a failure is raised at control point origin: the
\* iterations completed, plus the units of the for loop already counted
StepAtFailure(origin) ==
    IF origin \in {"batch_observe_and_train", "finalize",
                   "env.reset(not_end)"}
      THEN step_offset + num_envs * (n_iters - 1)
    ELSE IF origin \in {"for", "hook"}
      THEN step_offset + num_envs * (n_iters - 1) + unit
    ELSE step_offset + num_envs * n_iters

\* C11: on the failure path the handler's calls are made in the order
\* save_agent('_except'), env.close, evaluator.env.close, each one only
\* after the one before it has returned, all before the failure reaches
\* the caller (none is made while the failure is still being raised), and
\* the step given to save_agent is the value t had when the failure was
\* raised, which inside the for loop is not a whole number of batches.
C11_FailureOrder ==
    /\ pc = "except" => exit_calls = <<>>
    /\ (ReachedCaller /\ FailedInLoop) =>
          /\ Len(exit_calls) \in 1..(IF evaluator THEN 3 ELSE 2)
          /\ \A k \in DOMAIN exit_calls :
                /\ exit_calls[k].op =
                      <<"save_agent", "env.close", "evaluator.env.close">>[k]
                /\ (k < Len(exit_calls) => exit_calls[k].returned)
          /\ exit_calls[1].suffix = "_except"
          /\ exit_calls[1].step = StepAtFailure(original.origin)
          /\ t = exit_calls[1].step

C11_Witness ==
    /\ ReachedCaller
    /\ original = [kind |-> "Exception", origin |-> "hook"]
    /\ exc = original
    /\ evaluator
    /\ num_envs = 2
    /\ step_offset = 0
    /\ Len(exit_calls) = 3
    /\ AllReturned
    /\ exit_calls[1].step = 1

\* ---- C12 ----
\* the evaluation step of an iteration has just been taken
AfterEvaluation ==
    \/ pc = "while" /\ n_iters > 0
    \/ pc = "finish" /\ exit_by = "success"

\* C12: right after the evaluation step of an iteration, the loop has been
\* left by the success exit exactly when an evaluator is configured, its
\* evaluate_if_necessary call of this iteration returned true,
\* successful_score is not None and max_score >= successful_score; in
\* every other case the loop goes back to its condition, and it is left
\* by the budget only with t >= steps.
C12_EarlyExit ==
    /\ AfterEvaluation =>
          (exit_by = "success" <=> (evaluator /\ EvaluationMetThreshold))
    /\ exit_by = "success" => evaluator /\ successful_score # None
    /\ exit_by = "budget" => t >= steps

C12_Witness ==
    /\ pc = "while"
    /\ t < steps
    /\ evaluator
    /\ successful_score # None
    /\ max_score >= Val(successful_score)
    /\ calls # <<>>
    /\ LastCall.op = "evaluator.evaluate_if_necessary"
    /\ ~LastCall.arg[3]

\* ---- C13 ----
\* C13: the mask given to env.reset is NOT(dones OR resets), slot by slot,
\* and the bookkeeping step leaves a slot that did not end as it was:
\* episode_idx unchanged, episode_r with the accumulated value,
\* episode_len with the incremented value, and one value archived per
\* ended slot only.
C13_Step ==
    /\ (pc = "env.reset(not_end)" /\ pc' = "for") =>
          /\ calls'[Len(calls')].op = "env.reset"
          /\ calls'[Len(calls')].arg =
                [i \in Slots |-> ~(dones[i] \/ resets[i])]
    /\ (pc = "finalize" /\ pc' = "env.reset(not_end)") =>
          /\ \A i \in Slots \ Ended :
                /\ episode_idx'[i] = episode_idx[i]
                /\ episode_r'[i] = episode_r[i]
                /\ episode_len'[i] = episode_len[i]
                /\ episode_len'[i] >= 1
          /\ Len(archived') - Len(archived) = Cardinality(Ended)
C13_ResetMask == [][C13_Step]_vars

C13_Witness ==
    /\ pc = "for"
    /\ num_envs = 2
    /\ end[1] /\ ~end[2]
    /\ LastCall = Call("env.reset", [i \in Slots |-> i = 2])
    /\ episode_idx[2] = 0
    /\ episode_r[2] = 1
    /\ episode_len[2] = 1
    /\ Len(archived) = 1

\* ---- C14 ----
\* the hook calls of one whole iteration
HookCallsPerIteration == num_envs * Len(step_hooks)
\* the calls that may stand at place k of an iteration's call log; the
\* bookkeeping update is logged at place 4 and a progress report after
\* the hooks
ExpectedOps(k) ==
    IF k = 1 THEN {"agent.batch_act_and_train"}
    ELSE IF k = 2 THEN {"env.step"}
    ELSE IF k = 3 THEN {"agent.batch_observe_and_train"}
    ELSE IF k = 4 THEN {"finalize"}
    ELSE IF k = 5 THEN {"env.reset"}
    ELSE IF k <= 5 + HookCallsPerIteration THEN {"hook"}
    ELSE IF k = 6 + HookCallsPerIteration
      THEN {"logger.info"}
           \cup (IF evaluator THEN {"evaluator.evaluate_if_necessary"}
                 ELSE {})
    ELSE IF k = 7 + HookCallsPerIteration /\ evaluator
                /\ calls[k - 1].op = "logger.info"
      THEN {"evaluator.evaluate_if_necessary"}
    ELSE {}
\* the number of the current iteration, counted from 1
IterationNumber == IF Len(calls) >= 2 THEN n_iters ELSE n_iters + 1

\* C14: the calls an iteration has made so far are the first calls of
\* batch_act_and_train, env.step, batch_observe_and_train, env.reset, the
\* hooks, evaluate_if_necessary, in this order and once each, and all of
\* them when the iteration is over; batch_observe_and_train receives the
\* observations of env.step and the dones and resets that the bookkeeping
\* step, which comes after it, then uses; batch_act_and_train receives the
\* observations of env.reset() in the first iteration and those of the
\* previous iteration's env.reset(not_end) in every later one.
C14_Protocol ==
    /\ \A k \in DOMAIN calls : calls[k].op \in ExpectedOps(k)
    /\ AfterEvaluation =>
          /\ Len(calls) >= 5 + HookCallsPerIteration
          /\ evaluator => LastCall.op = "evaluator.evaluate_if_necessary"
    /\ calls # <<>> =>
          calls[1].arg = IF IterationNumber = 1 THEN "env.reset()"
                         ELSE "env.reset(not_end)"
    /\ Len(calls) >= 3 =>
          calls[3].arg = <<"env.step", rs, dones, resets>>
    /\ Len(calls) >= 4 =>
          calls[4].arg =
              [i \in Slots |-> calls[3].arg[3][i] \/ calls[3].arg[4][i]]
    /\ pc = "finalize" => \A i \in Slots : episode_len[i] >= 1

C14_Witness ==
    /\ pc = "while"
    /\ n_iters = 2
    /\ evaluator
    /\ Len(step_hooks) = 1
    /\ calls[1] = Call("agent.batch_act_and_train", "env.reset(not_end)")
    /\ Len(calls) = 7
    /\ calls[6].op = "hook"

\* ---- C15 ----
\* a positive multiple of n lies in the range (t - num_envs, t]
CrossedMultiple(n) ==
    \E m \in 1..t : m * n > t - num_envs /\ m * n <= t
IsReport(c) == c.op = "logger.info"
ReportsOfIteration == Len(SelectSeq(calls, IsReport))

\* C15: when the logging step of an iteration is done, one progress report
\* was emitted in the iteration if log_interval is set and a positive
\* multiple of it lies in (t - num_envs, t], and none otherwise; with
\* log_interval None no report is ever emitted.
C15_LogCadence ==
    /\ ReportsOfIteration <= 1
    /\ reports <= n_iters
    /\ log_interval = None => reports = 0
    /\ pc = "evaluate" =>
          (ReportsOfIteration = 1 <=>
              (log_interval # None /\ CrossedMultiple(Val(log_interval))))

C15_Witness ==
    /\ pc = "evaluate"
    /\ log_interval = Some(2)
    /\ num_envs = 2
    /\ t = 3
    /\ ReportsOfIteration = 1
    /\ reports = 1

\* ---- C16 ----
\* the program is sequential: while it has not left train_agent_batch its
\* next statement is executed
FairSpec == Init /\ [][Next]_vars /\ WF_vars(Next)

Left == pc \in {"returned", "raised"}
AtBoundary == pc = "while"
C16_Counter ==
    /\ AtBoundary => t = step_offset + num_envs * n_iters
    /\ (BudgetExhausted /\ step_offset < steps) =>
          /\ t >= steps
          /\ t < steps + num_envs
          /\ (t > steps <=> (steps - step_offset) % num_envs # 0)
          /\ \A k \in DOMAIN exit_calls : exit_calls[k].step = t

\* C16: train_agent_batch is eventually left; at every test of the loop
\* condition t is step_offset plus num_envs times the number of iterations
\* done; and a run that starts with step_offset < steps and ends because
\* the budget is exhausted saves '_finish' at a t with
\* steps <= t < steps + num_envs, which is above steps exactly when
\* steps - step_offset is not a multiple of num_envs.
C16_Termination == []C16_Counter /\ <>Left

C16_Witness ==
    /\ pc = "returned"
    /\ BudgetExhausted
    /\ num_envs = 2
    /\ steps = 1
    /\ step_offset = 0
    /\ t = 2
    /\ exit_calls = <<FinishSave(TRUE)>>

\* ---- C17 ----
NormalExit == exit_by \in {"budget", "success"}
Closes == {k \in DOMAIN exit_calls :
              exit_calls[k].op \in {"env.close", "evaluator.env.close"}}

\* C17: a run that left the loop because the budget was exhausted or the
\* success threshold was met calls neither env.close nor
\* evaluator.env.close, and when it has returned its only exit call is
\* the '_finish' save; a close is only ever called after a failure.
C17_NoCloseOnNormalExit ==
    /\ NormalExit => Closes = {}
    /\ (NormalExit /\ pc = "returned") => exit_calls = <<FinishSave(TRUE)>>
    /\ Closes # {} => original.kind # "none"

C17_Witness ==
    /\ pc = "returned"
    /\ exit_by = "success"
    /\ n_iters = 2
    /\ Closes = {}
    /\ Len(exit_calls) = 1

\* ---- C18 ----
EpisodesPassed(c, idx) ==
    c.op = "evaluator.evaluate_if_necessary" => c.arg[2] = Sum(idx)
C18_Step ==
    /\ Sum(episode_idx) = Len(archived)
    /\ Sum(episode_idx') = Len(archived')
    /\ Sum(episode_idx') >= Sum(episode_idx)
    /\ \A k \in DOMAIN calls' : EpisodesPassed(calls'[k], episode_idx')

\* C18: the sum of episode_idx over the slots always equals the number of
\* returns archived so far, evicted ones included, it never decreases, and
\* it is the episodes value given to evaluator.evaluate_if_necessary.
C18_EpisodeCount == [][C18_Step]_vars

C18_Witness ==
    /\ pc = "while"
    /\ evaluator
    /\ n_iters = 2
    /\ LastCall.op = "evaluator.evaluate_if_necessary"
    /\ LastCall.arg[2] = 2
    /\ Len(archived) = 2

\* ---- C19 ----
LenBound(len) ==
    max_episode_len # None =>
        \A i \in Slots : len[i] >= 0 /\ len[i] <= Val(max_episode_len)
C19_Step ==
    /\ (pc = "batch_act_and_train" /\ max_episode_len # None) =>
          \A i \in Slots : episode_len[i] \in 0..(Val(max_episode_len) - 1)
    /\ LenBound(episode_len) /\ LenBound(episode_len')
    /\ episode_len' =
          IF pc = "env.step" /\ pc' = "batch_observe_and_train"
            THEN [i \in Slots |-> episode_len[i] + 1]
          ELSE IF pc = "finalize" /\ pc' = "env.reset(not_end)"
            THEN [i \in Slots |->
                     IF dones[i] \/ resets[i] THEN 0 ELSE episode_len[i]]
          ELSE episode_len

\* C19: with max_episode_len = L, every slot's episode_len is in 0..L-1
\* when an iteration starts and never above L; it grows by one with each
\* env.step, returns to 0 when the slot's episode ends and changes nowhere
\* else, so it counts the environment steps of the slot's current episode.
C19_StepCountBound == [][C19_Step]_vars

C19_Witness ==
    /\ pc = "batch_act_and_train"
    /\ max_episode_len = Some(2)
    /\ n_iters = 1
    /\ episode_len[1] = 1

\* ---- C20 ----
\* C20: when step_offset >= steps, after the initial env.reset() no
\* iteration is started, no agent, environment, hook or evaluator call is
\* made, save_agent is never called twice nor with a step other than
\* step_offset, and a run that returns has called save_agent once, with
\* suffix '_finish' and step step_offset, and nothing else.
C20_ResumePastBudget ==
    (step_offset >= steps /\ pc # "env.reset") =>
        /\ n_iters = 0
        /\ calls = <<>>
        /\ \A h \in DOMAIN hook_count : hook_count[h] = 0
        /\ reports = 0
        /\ pc \in {"while", "finish", "except", "returned", "raised"}
        /\ NumSaves("_finish") + NumSaves("_except") <= 1
        /\ \A k \in DOMAIN exit_calls : exit_calls[k].step = step_offset
        /\ pc = "returned" =>
              exit_calls = <<[op |-> "save_agent", suffix |-> "_finish",
                              step |-> step_offset, returned |-> TRUE]>>
        /\ (pc = "raised" /\ original.origin = "save_agent"
                /\ exit_by = "budget") =>
              exit_calls = <<[op |-> "save_agent", suffix |-> "_finish",
                              step |-> step_offset, returned |-> FALSE]>>

C20_Witness ==
    /\ pc = "returned"
    /\ step_offset = 1
    /\ steps = 0
    /\ Len(step_hooks) = 1
    /\ NumSaves("_finish") = 1

====
